---------------------------- MODULE Spec2Model ----------------------------
(***************************************************************************)
(* Stepper clock controller of andi-christ/clock.                          *)
(*                                                                         *)
(* src/webtime.py: the Wi-Fi controller.  One cooperative scheduler runs   *)
(* the clock_loop task and the Microdot handlers /sync, /advance1 and      *)
(* /advance5.  Handlers are plain functions, and clock_loop yields only at *)
(* its `await asyncio.sleep(0.1)`, so a handler or one loop iteration runs *)
(* to its end before anything else runs; only a power loss can cut it.     *)
(* The model therefore has one control position (pc) and splits each       *)
(* function at the places where a power loss leaves a different state on   *)
(* disk or at the motor: before/after the pins are driven, after a file    *)
(* has been opened for writing (truncated), after it has been written.     *)
(*                                                                         *)
(* src/main.py: the DCF77 controller; its main loop pulses the minute      *)
(* motor once per decoded frame (pulseminute).  Spec takes the decoder's   *)
(* outcome as an input (DcfCycle); RadioSpec follows detectNewMinute and   *)
(* computeTime sample by sample and bit by bit.  WifiSpec follows the      *)
(* Wi-Fi retry of webtime.py's clock_loop against time.time().             *)
(*                                                                         *)
(* Time strings "HH:MM" are tuples of four digits <<h1,h2,m1,m2>>; the     *)
(* empty tuple is the empty string.  A file is [exists, data]: data is     *)
(* what read().strip() returns.                                            *)
(***************************************************************************)
EXTENDS Integers, Sequences, FiniteSets, TLC

\* ------------------------------------------------------------- bounds
\* Most pulses driven from one bootstrap of the record (caps the counter).
MaxPulses == 5
\* Most power losses in one behaviour.
MaxCrashes == 1
\* Most samples one call of detectNewMinute takes.
MaxSamples == 24
\* Latest time.time() the Wi-Fi retry is followed to, in seconds.
MaxClock == 610

\* ---------------------------------------------------------- constants
\* webtime.py:16  seconds per pulse
pulsefrequency == 60

\* Pulses in the 12-hour cycle of pulsessince12 (h % 12, line 83-84).
HalfDay == (12 * 3600) \div pulsefrequency

\* ------------------------------------------------------- time strings
\* twodigits(n): str(n), left-padded with "0" to two characters.
twodigits(n) == IF n < 10 THEN <<0, n>> ELSE <<n \div 10, n % 10>>

\* f"{twodigits(h)}:{twodigits(m)}"
format_hm(h, m) == twodigits(h) \o twodigits(m)

\* int(parts[0]), int(parts[1]) of timestr.split(":")
hour_of(t) == 10 * t[1] + t[2]
minute_of(t) == 10 * t[3] + t[4]

\* pulsessince12(timestr), for a string with two fields.
pulsessince12(t) == (((hour_of(t) % 12) * 3600) + (minute_of(t) * 60)) \div pulsefrequency

\* Mutant of new_hm: the minute is advanced twice (m += 2).
new_hm_skip(t) ==
    LET m1 == minute_of(t) + 2
        h1 == (hour_of(t) + (m1 \div 60)) % 12
    IN  format_hm(h1, m1 % 60)

\* Mutant of new_hm: the hour is not carried (h = h % 12).
new_hm_no_carry(t) ==
    LET m1 == minute_of(t) + 1
    IN  format_hm(hour_of(t) % 12, m1 % 60)

\* The time arithmetic of pulsetoclock (lines 93-97).
new_hm(t) ==
    LET m1 == minute_of(t) + 1
        h1 == (hour_of(t) + (m1 \div 60)) % 12
    IN  format_hm(h1, m1 % 60)

\* The times the RTC, the radio and the /sync form supply in this model.
Times == { format_hm(0, 5), format_hm(0, 8), format_hm(3, 15),
           format_hm(3, 16), format_hm(11, 59), format_hm(12, 0) }

\* The baselines an operator configures (firstruntime.txt, /sync).
Baselines == { format_hm(0, 5), format_hm(3, 15), format_hm(3, 16),
               format_hm(11, 59) }

\* ---------------------------------------------- main.py: detectNewMinute
\* main.py:20  ms between two samples
sleeptime == 50
\* main.py:22  breakat = ceil(1000/sleeptime) + 1
breakat == ((1000 + sleeptime - 1) \div sleeptime) + 1

\* Mutant of count_lows: a high sample does not reset the count.
count_lows_no_reset(n, v) == IF v = 0 THEN n + 1 ELSE n

\* main.py:27-32  countZeros after a sample v
count_lows(n, v) == IF v = 0 THEN n + 1 ELSE 0

\* ------------------------------------------------- main.py: computeTime
\* main.py:69  ms between two samples
samplespeed == 5
\* main.py:70  samples = floor(1000/samplespeed * .35): the window's length
samples == (1000 * 35) \div (samplespeed * 100)
\* main.py:75-76
noisethreshms == 40
zerothreshms == 180

\* The thresholds as numbers of samples.
NoiseSamples == noisethreshms \div samplespeed
ZeroSamples == zerothreshms \div samplespeed

\* A window a[0..samples-1] as computeTime sees it: its first two samples,
\* lead = sum(a[0:10]) and total = sum(a), the measured duration in samples.
Window(a0, a1, lead, total) == [a0 |-> a0, a1 |-> a1, lead |-> lead, total |-> total]
NoWindow == Window(0, 0, 0, 0)

\* A rising edge at the head of the window.
Edge(lead, total) == Window(0, 1, lead, total)

\* The windows the receiver supplies in this model: solid pulses of every
\* length around the two thresholds, a pulse with gaps, and a window that
\* does not start at an edge.
Windows ==
    { Edge(IF n < 9 THEN n ELSE 9, n) :
        n \in { NoiseSamples - 1, NoiseSamples, NoiseSamples + 1,
                ZeroSamples, ZeroSamples + 1, samples - 1 } }
    \cup { Edge(NoiseSamples - 1, ZeroSamples \div 2), Window(1, 1, 10, ZeroSamples \div 2) }

\* main.py:84  a[0]==0 and a[1]==1 and sum(a[0:10]) > 7
detected(c) == c.a0 = 0 /\ c.a1 = 1 /\ c.lead > 7

\* main.py:86  sum(a) > 1000/samplespeed * noisethreshms/1000
is_signal(total) == total * samplespeed > noisethreshms

\* Mutant of is_zero: the split threshold itself is classified as a one.
is_zero_strict(total) == total * samplespeed < zerothreshms

\* main.py:87  sum(a) <= 1000/samplespeed * zerothreshms/1000
is_zero(total) == total * samplespeed <= zerothreshms

\* Mutant of classify: every rising edge yields a bit.
classify_every_edge(ti, c) ==
    IF c.a0 = 0 /\ c.a1 = 1
    THEN Append(ti, IF is_zero(c.total) THEN 0 ELSE 1)
    ELSE ti

\* main.py:84-93  timeInfo after one sample of the loop
classify(ti, c) ==
    IF detected(c) /\ is_signal(c.total)
    THEN Append(ti, IF is_zero(c.total) THEN 0 ELSE 1)
    ELSE ti

\* timeInfo[i], counted from 0 as in the source
bit(ti, i) == ti[i + 1]

\* sum(timeInfo[lo:hi])
RECURSIVE sum_bits(_, _, _)
sum_bits(ti, lo, hi) == IF lo >= hi THEN 0 ELSE bit(ti, lo) + sum_bits(ti, lo + 1, hi)

\* main.py:97
markers_bad(ti) == bit(ti, 0) # 0 \/ bit(ti, 20) # 1

\* Mutant of parity_bad: the hour group is not checked.
parity_bad_no_hour(ti) ==
    \/ sum_bits(ti, 21, 29) % 2 = 1
    \/ sum_bits(ti, 36, 59) % 2 = 1

\* main.py:101
parity_bad(ti) ==
    \/ sum_bits(ti, 21, 29) % 2 = 1
    \/ sum_bits(ti, 29, 36) % 2 = 1
    \/ sum_bits(ti, 36, 59) % 2 = 1

\* main.py:105-111
minute(ti) == bit(ti, 21) + 2 * bit(ti, 22) + 4 * bit(ti, 23) + 8 * bit(ti, 24)
              + 10 * bit(ti, 25) + 20 * bit(ti, 26) + 40 * bit(ti, 27)
stunde(ti) == bit(ti, 29) + 2 * bit(ti, 30) + 4 * bit(ti, 31) + 8 * bit(ti, 32)
              + 10 * bit(ti, 33) + 20 * bit(ti, 34)
tag(ti) == bit(ti, 36) + 2 * bit(ti, 37) + 4 * bit(ti, 38) + 8 * bit(ti, 39)
           + 10 * bit(ti, 40) + 20 * bit(ti, 41)
wochentag(ti) == bit(ti, 42) + 2 * bit(ti, 43) + 4 * bit(ti, 44)
monat(ti) == bit(ti, 45) + 2 * bit(ti, 46) + 4 * bit(ti, 47) + 8 * bit(ti, 48)
             + 10 * bit(ti, 49)
jahr(ti) == bit(ti, 50) + 2 * bit(ti, 51) + 4 * bit(ti, 52) + 8 * bit(ti, 53)
            + 10 * bit(ti, 54) + 20 * bit(ti, 55) + 40 * bit(ti, 56) + 80 * bit(ti, 57)

\* Mutant of season_of: bit 18 is looked at first.
season_of_winter_first(ti) ==
    IF bit(ti, 18) = 1 THEN "CET"
    ELSE IF bit(ti, 17) = 1 THEN "CEST"
    ELSE ""

\* main.py:112-117  season; "" where the code returns 'failed'
season_of(ti) ==
    IF bit(ti, 17) = 1 THEN "CEST"
    ELSE IF bit(ti, 18) = 1 THEN "CET"
    ELSE ""

\* main.py:40-50  weekday(i)
weekday(i) ==
    IF i \in 1..7
    THEN <<"Monday", "Tuesday", "Wednesday", "Thursday", "Friday",
           "Saturday", "Sunday">>[i]
    ELSE "Invalid day of week"

\* str(n) of a number n >= 0: its decimal digits
RECURSIVE str(_)
str(n) == IF n < 10 THEN <<n>> ELSE Append(str(n \div 10), n % 10)

\* Mutant of twodigits_str: the string is cut to its last character.
twodigits_last(s) == <<s[Len(s)]>>

\* main.py:129-132  twodigits(str)
twodigits_str(s) == IF Len(s) = 1 THEN <<0>> \o s ELSE s

\* The value 'failed' of radiotime, and a time string
\* "HH:MM:00,Weekday,YYYY-MM-DD" as its fields.
failed == [ok |-> FALSE, hh |-> << >>, mm |-> << >>, wd |-> "", yyyy |-> << >>,
           mo |-> << >>, dd |-> << >>]

\* main.py:120
timestring(ti) ==
    [ok |-> TRUE,
     hh |-> twodigits_str(str(stunde(ti))),
     mm |-> twodigits_str(str(minute(ti))),
     wd |-> weekday(wochentag(ti)),
     yyyy |-> str(2000 + jahr(ti)),
     mo |-> twodigits_str(str(monat(ti))),
     dd |-> twodigits_str(str(tag(ti)))]

\* main.py:96-125  what computeTime returns for a complete frame
computeTime(ti) ==
    IF markers_bad(ti) THEN failed
    ELSE IF parity_bad(ti) THEN failed
    ELSE IF season_of(ti) = "" THEN failed
    ELSE timestring(ti)

\* ds3231.w (main.py:139) and self.w.index(name) (line 153): the position
\* of the name, 0 where index raises ValueError.
w == <<"Sunday", "Monday", "Tuesday", "Wednesday", "Thursday", "Friday", "Saturday">>
w_index(name) == IF \E i \in 1..Len(w) : w[i] = name
                 THEN CHOOSE i \in 1..Len(w) : w[i] = name
                 ELSE 0

\* ------------------------------------------------ frames on the air
\* n as `width` bits, least significant first
RECURSIVE bin(_, _)
bin(n, width) == IF width = 0 THEN << >> ELSE <<n % 2>> \o bin(n \div 2, width - 1)

\* BCD: the units in four bits, the tens in `tens` bits
bcd(n, tens) == bin(n % 10, 4) \o bin(n \div 10, tens)

RECURSIVE sum_seq(_)
sum_seq(s) == IF s = << >> THEN 0 ELSE Head(s) + sum_seq(Tail(s))

\* The bit that makes the parity of a group even.
even(s) == s \o <<sum_seq(s) % 2>>

DateTime(mi, st, tg, wt, mo, ja) ==
    [minute |-> mi, hour |-> st, day |-> tg, weekday |-> wt, month |-> mo, year |-> ja]

\* The DCF77 frame of a time: bit 0 = 0, bits 1-16 and 19 unused by the
\* decoder, z1/z2 at bits 17/18, bit 20 = 1, then the three groups.
encode(t, z1, z2) ==
    <<0>> \o bin(0, 16) \o <<z1, z2, 0, 1>>
    \o even(bcd(t.minute, 3))
    \o even(bcd(t.hour, 2))
    \o even(bcd(t.day, 2) \o bin(t.weekday, 3) \o bcd(t.month, 1) \o bcd(t.year, 4))

\* The frame with bit i inverted (i = -1: as it is).
corrupt(f, i) == [k \in 1..Len(f) |-> IF k = i + 1 THEN 1 - f[k] ELSE f[k]]

\* Times a transmitter sends, and bit patterns it never sends (minute 60,
\* hour 24, day 0, weekday 0, month 13) that pass the parity checks.
ValidTimes == { DateTime(45, 13, 24, 1, 5, 21), DateTime(0, 0, 1, 7, 1, 0),
                DateTime(59, 23, 31, 6, 12, 99) }
OddTimes == { DateTime(60, 13, 24, 1, 5, 21), DateTime(45, 24, 24, 1, 5, 21),
              DateTime(45, 13, 0, 1, 5, 21), DateTime(45, 13, 24, 0, 5, 21),
              DateTime(45, 13, 24, 1, 13, 21) }
FlipAt == {-1, 0, 20, 25, 28, 33, 35, 44, 58}

\* Sent in summer time with one bit inverted or none; one time with every
\* setting of bits 17 and 18; the patterns never sent, in winter time.
Frames ==
    { corrupt(encode(t, 1, 0), i) : t \in ValidTimes, i \in FlipAt }
    \cup { encode(DateTime(45, 13, 24, 1, 5, 21), z1, z2) : z1 \in {0, 1}, z2 \in {0, 1} }
    \cup { encode(t, 0, 1) : t \in OddTimes }

\* The fields a time string carries, read back as numbers.
RECURSIVE val(_)
val(s) == IF s = << >> THEN 0 ELSE 10 * val(SubSeq(s, 1, Len(s) - 1)) + s[Len(s)]

weekday_number(name) ==
    IF \E i \in 1..7 : weekday(i) = name THEN CHOOSE i \in 1..7 : weekday(i) = name ELSE 0

fields_of(r) ==
    DateTime(val(r.mm), val(r.hh), val(r.dd), weekday_number(r.wd), val(r.mo),
             val(r.yyyy) - 2000)

\* --------------------------------------------------------------- files
NoFile == [exists |-> FALSE, data |-> << >>]
\* open(name, "w") before anything is written: the file exists and is empty.
EmptyFile == [exists |-> TRUE, data |-> << >>]
FileOf(d) == [exists |-> TRUE, data |-> d]

\* f"{hm}\t{a}\t{b}" as its three tab-separated fields.
RecordOf(hm, a, b) == FileOf(<<hm, a, b>>)

\* data.split("\t") unpacks into three fields (else ValueError).
ThreeFields(f) == f.exists /\ Len(f.data) = 3

NoOffset == [none |-> TRUE, v |-> 0]
OffsetOf(n) == [none |-> FALSE, v |-> n]

VARIABLES
    prog,       \* the script that is flashed: "webtime" or "dcf" (main.py)
    rtc,        \* the RTC's HH:MM (time.localtime())
    firstrun,   \* firstruntime.txt
    lastpulse,  \* lastpulseat.txt
    pc,         \* control position
    op,         \* the task or handler that is running
    last_hm, a, b,   \* locals: the time string and the phase pair
    offset,     \* calcoffset's first result
    left,       \* remaining pulsetoclock calls (/sync), advance_one calls
    new,        \* /sync's initial_time
    phys,       \* the polarity last driven at the motor
    crashes,    \* power losses so far
    lossAt,     \* control position at the last power loss
    origin,     \* history: the baseline the record was bootstrapped from
    driven,     \* history: pulses driven since then
    lost,       \* history: of those, driven but cut off before their write
    ep,         \* history: episode with the target held fixed
    countZeros, \* detectNewMinute: consecutive low samples
    nsamples,   \* history: samples detectNewMinute has taken in this call
    lastHigh,   \* history: number of the last high sample (0: none yet)
    sent,       \* the minute frame on the air while computeTime listens
    timeInfo,   \* computeTime: the bits classified so far (bitNum = Len)
    cell,       \* the window computeTime measured last
    radiotime,  \* computeTime's result
    season,     \* computeTime's local: "CEST", "CET" or "" (not set)
    wifi_failed,        \* webtime.py global
    last_wifi_attempt,  \* webtime.py global
    clock,      \* time.time(), seconds since the script started
    prev_attempt        \* history: time.time() at the last set_time call

\* The state of main.py's decoder, and of webtime.py's Wi-Fi retry.
radio == <<countZeros, nsamples, lastHigh, sent, timeInfo, cell, radiotime, season>>
net == <<wifi_failed, last_wifi_attempt, clock, prev_attempt>>

vars == <<prog, rtc, firstrun, lastpulse, pc, op, last_hm, a, b, offset,
          left, new, phys, crashes, lossAt, origin, driven, lost, ep,
          radio, net>>

files == <<firstrun, lastpulse>>
hist == <<origin, driven, lost, ep>>

NoEp == [ok |-> FALSE, L |-> 0, n |-> 0, boot |-> FALSE]

\* An episode starts from the record on disk (none unless it parses);
\* only webtime.py reads the record.
EpFrom(f) ==
    IF ThreeFields(f) /\ Len(f.data[1]) = 4 /\ prog = "webtime"
    THEN [ok |-> TRUE, L |-> pulsessince12(f.data[1]), n |-> 0, boot |-> FALSE]
    ELSE NoEp

\* The phase pair a script holds when no pulse call is active.
\* webtime.py has none between handlers (shown as the bootstrap pair);
\* main.py:241-242 starts with a = True, b = False.
BootA(p) == p = "dcf"
BootB(p) == p # "dcf"

Init ==
    /\ prog \in {"webtime", "dcf"}
    /\ rtc \in Times
    /\ firstrun \in {NoFile} \cup { FileOf(t) : t \in Baselines }
    /\ lastpulse = NoFile
    /\ pc = "boot"
    /\ op = "none"
    /\ last_hm = << >>
    /\ a = BootA(prog)
    /\ b = BootB(prog)
    /\ offset = NoOffset
    /\ left = 0
    /\ new = << >>
    /\ phys = [n |-> 0, a |-> FALSE, b |-> FALSE]
    /\ crashes = 0
    /\ lossAt = "none"
    /\ origin = << >>
    /\ driven = 0
    /\ lost = 0
    /\ ep = NoEp
    /\ countZeros = 0
    /\ nsamples = 0
    /\ lastHigh = 0
    /\ sent = << >>
    /\ timeInfo = << >>
    /\ cell = NoWindow
    /\ radiotime = failed
    /\ season = ""
    /\ wifi_failed = FALSE
    /\ last_wifi_attempt = 0
    /\ clock = 0
    /\ prev_attempt = 0


\* ------------------------------------------------------- pure pieces
\* calcoffset line 129-130: offset = current_p - last_p
calcoffset_value(current_hm, hm) == pulsessince12(current_hm) - pulsessince12(hm)

\* Mutant of bootstrap_b: the bootstrap pair is False, False.
bootstrap_b_false == FALSE

\* calcoffset line 123: the bootstrap phase pair a, b = False, True
bootstrap_a == FALSE
bootstrap_b == TRUE

\* Mutant of loop_pulses: the loop stops one pulse short (offset > 1).
loop_pulses_short(off) == IF ~off.none /\ off.v > 1 THEN 1 ELSE 0

\* Mutant of loop_pulses: the test `offset != 0` is missing.
loop_pulses_always(off) == IF ~off.none THEN 1 ELSE 0

\* clock_loop line 241: pulse once when offset is neither None nor 0
loop_pulses(off) == IF ~off.none /\ off.v # 0 THEN 1 ELSE 0

\* Mutant of sync_pulses: one pulse too many (range(offset + 1)).
sync_pulses_extra(off) ==
    IF off.none \/ off.v = 0 THEN 0
    ELSE IF off.v > 0 THEN off.v + 1 ELSE 0

\* sync_clock lines 205-207: range(max(0, offset)) when offset != 0
sync_pulses(off) ==
    IF off.none \/ off.v = 0 THEN 0
    ELSE IF off.v > 0 THEN off.v ELSE 0

\* pulsetoclock line 88 / pulseminute lines 190-191
flip(x) == ~x

\* Mutant of missing: the OSError of a missing file is not recognised.
missing_never(f) == FALSE /\ f.exists

\* open(name) raises OSError, which lines 115 and 119 catch: no such file.
missing(f) == ~f.exists

\* Mutant of yields: pulsetoclock's dwell is an await (asyncio.sleep).
yields_in_pulse(p) == p \in {"idle", "open"}

\* The scheduler runs a request handler only where clock_loop awaits:
\* `await asyncio.sleep(0.1)`, line 248.  time.sleep (lines 91, 103) blocks.
yields(p) == p = "idle"

\* webtime.py:17  seconds between two Wi-Fi retries
wifi_retry_interval == 600

\* clock_loop line 244
retry_due(flag, now, last) == flag /\ now - last > wifi_retry_interval

\* ------------------------------------------------------- calcoffset
\* Lines 109-123: read the record, else the baseline.  `raised` is where an
\* exception that calcoffset does not catch (ValueError) takes control.
CalcRead(raised) ==
    IF ~missing(lastpulse)
    THEN IF Len(lastpulse.data) = 3
         THEN /\ last_hm' = lastpulse.data[1]
              /\ a' = lastpulse.data[2]
              /\ b' = lastpulse.data[3]
              /\ offset' = OffsetOf(calcoffset_value(rtc, lastpulse.data[1]))
              /\ pc' = "decide"
         ELSE \* line 111: unpacking fewer than three fields, ValueError
              /\ pc' = raised
              /\ UNCHANGED <<last_hm, a, b, offset>>
    ELSE IF missing(firstrun)
         THEN \* lines 119-121: return None, None, None, None
              /\ offset' = NoOffset
              /\ pc' = "decide"
              /\ UNCHANGED <<last_hm, a, b>>
         ELSE IF Len(firstrun.data) # 4
              THEN \* line 122: pulsessince12("") raises ValueError
                   /\ pc' = raised
                   /\ UNCHANGED <<last_hm, a, b, offset>>
              ELSE /\ last_hm' = firstrun.data
                   /\ a' = bootstrap_a
                   /\ b' = bootstrap_b
                   /\ pc' = "bopen"
                   /\ UNCHANGED offset

\* clock_loop lines 238-240: one iteration starts; calcoffset reads.
LoopCalc ==
    /\ prog = "webtime"
    /\ pc \in {"boot", "idle"}
    /\ op' = "loop"
    /\ CalcRead("halt")
    /\ UNCHANGED <<prog, radio, net, rtc, files, left, new, phys, crashes, lossAt, hist>>

\* calcoffset line 125: open("lastpulseat.txt", "w")
BootOpen ==
    /\ pc = "bopen"
    /\ lastpulse' = EmptyFile
    /\ pc' = "bwrite"
    /\ UNCHANGED <<prog, radio, net, rtc, firstrun, op, last_hm, a, b, offset, left, new,
                   phys, crashes, lossAt, hist>>

\* Mutant of BootWrite: the initial record is not written.
BootWriteNoPersist ==
    /\ pc = "bwrite"
    /\ offset' = OffsetOf(calcoffset_value(rtc, last_hm))
    /\ pc' = "decide"
    /\ origin' = last_hm
    /\ driven' = 0
    /\ lost' = 0
    /\ ep' = [ok |-> TRUE, L |-> pulsessince12(last_hm), n |-> 0, boot |-> TRUE]
    /\ UNCHANGED <<prog, radio, net, rtc, files, op, last_hm, a, b, left, new, phys,
                   crashes, lossAt>>

\* calcoffset lines 126-131: the initial record is written, offset returned.
BootWrite ==
    /\ pc = "bwrite"
    /\ lastpulse' = RecordOf(last_hm, a, b)
    /\ offset' = OffsetOf(calcoffset_value(rtc, last_hm))
    /\ pc' = "decide"
    /\ origin' = last_hm
    /\ driven' = 0
    /\ lost' = 0
    /\ ep' = [ok |-> TRUE, L |-> pulsessince12(last_hm), n |-> 0, boot |-> TRUE]
    /\ UNCHANGED <<prog, radio, net, rtc, firstrun, op, last_hm, a, b, left, new, phys,
                   crashes, lossAt>>

\* clock_loop line 241 and sync_clock lines 203-207: what follows calcoffset.
Decide ==
    /\ pc = "decide"
    /\ left' = IF op = "loop" THEN loop_pulses(offset) ELSE sync_pulses(offset)
    /\ pc' = IF left' > 0 THEN "drive" ELSE "ret"
    /\ UNCHANGED <<prog, radio, net, rtc, files, op, last_hm, a, b, offset, new, phys,
                   crashes, lossAt, hist>>

\* ------------------------------------------------------ pulsetoclock
\* pulsetoclock lines 88-92 / pulseminute lines 189-196: both phases are
\* flipped and the two lines driven for the dwell time, then released.
\* Lines 93-97 then compute the new time; with an empty time string the
\* unpacking raises and the handler ends.
Drive ==
    /\ pc = "drive"
    /\ prog = "webtime" => driven < MaxPulses
    /\ a' = flip(a)
    /\ b' = flip(b)
    /\ phys' = [n |-> 1, a |-> a', b |-> b']
    /\ pc' = IF op # "dcf" /\ Len(last_hm) # 4 THEN "ret" ELSE "open"
    /\ driven' = IF prog = "webtime" THEN driven + 1 ELSE driven
    /\ ep' = IF ep.ok THEN [ep EXCEPT !.n = @ + 1] ELSE ep
    /\ UNCHANGED <<prog, radio, net, rtc, files, op, last_hm, offset, left, new, crashes,
                   lossAt, origin, lost>>

\* pulsetoclock line 99 / pulseminute line 198: open("lastpulseat.txt", "w")
Open ==
    /\ pc = "open"
    /\ lastpulse' = EmptyFile
    /\ pc' = "write"
    /\ UNCHANGED <<prog, radio, net, rtc, firstrun, op, last_hm, a, b, offset, left, new,
                   phys, crashes, lossAt, hist>>

\* pulsetoclock lines 100-105: the record of this pulse is written and the
\* call returns to clock_loop (243), sync_clock (208) or advance_one (224).
\* pulseminute lines 197-201 write the time string as it was passed and
\* return a; main.py:257-258 then sets b = not a.
Write ==
    /\ pc = "write"
    /\ last_hm' = IF op = "dcf" THEN last_hm ELSE new_hm(last_hm)
    /\ b' = IF op = "dcf" THEN ~a ELSE b
    /\ lastpulse' = RecordOf(last_hm', a, b)
    /\ left' = left - 1
    /\ pc' = IF left' = 0 THEN "ret"
             ELSE IF op = "adv" THEN "aread" ELSE "drive"
    /\ UNCHANGED <<prog, radio, net, rtc, firstrun, op, a, offset, new, phys, crashes,
                   lossAt, hist>>

\* The handler returns / the loop reaches `await asyncio.sleep(0.1)`
\* (main.py: the next turn of `while True`).  A handler's locals are gone.
Return ==
    /\ pc = "ret"
    /\ pc' = "idle"
    /\ op' = "none"
    /\ last_hm' = << >>
    /\ a' = IF prog = "dcf" THEN a ELSE BootA(prog)
    /\ b' = IF prog = "dcf" THEN b ELSE BootB(prog)
    /\ offset' = NoOffset
    /\ left' = 0
    /\ new' = << >>
    /\ ep' = IF op = "adv" THEN EpFrom(lastpulse) ELSE ep
    /\ UNCHANGED <<prog, radio, net, rtc, files, phys, crashes, lossAt, origin, driven, lost>>

\* ------------------------------------------------------------ /sync
\* sync_clock lines 181-192: a valid initial_time arrives; firstruntime.txt
\* is opened for writing.  Requests are served once clock_loop has run.
SyncRequest(t) ==
    /\ prog = "webtime"
    /\ yields(pc)
    /\ op' = "sync"
    /\ new' = t
    /\ firstrun' = EmptyFile
    /\ pc' = "swrite"
    /\ UNCHANGED <<prog, radio, net, rtc, lastpulse, last_hm, a, b, offset, left, phys,
                   crashes, lossAt, hist>>

\* sync_clock line 193: f.write(new)
SyncWrite ==
    /\ pc = "swrite"
    /\ firstrun' = FileOf(new)
    /\ pc' = "sremove"
    /\ UNCHANGED <<prog, radio, net, rtc, lastpulse, op, last_hm, a, b, offset, left, new,
                   phys, crashes, lossAt, hist>>

\* sync_clock lines 196-199: os.remove("lastpulseat.txt")
SyncRemove ==
    /\ pc = "sremove"
    /\ lastpulse' = NoFile
    /\ pc' = "scalc"
    /\ origin' = << >>
    /\ driven' = 0
    /\ lost' = 0
    /\ ep' = NoEp
    /\ UNCHANGED <<prog, radio, net, rtc, firstrun, op, last_hm, a, b, offset, left, new,
                   phys, crashes, lossAt>>

\* sync_clock lines 200-202: calcoffset(now_hm); an exception ends the
\* handler (Microdot answers 500).
SyncCalc ==
    /\ pc = "scalc"
    /\ CalcRead("ret")
    /\ UNCHANGED <<prog, radio, net, rtc, files, op, left, new, phys, crashes, lossAt, hist>>

\* --------------------------------------------------------- /advance
\* advance_one (n = 1) or advance_five (n = 5 calls of advance_one).
AdvRequest(n) ==
    /\ prog = "webtime"
    /\ yields(pc)
    /\ op' = "adv"
    /\ left' = n
    /\ pc' = "aread"
    /\ UNCHANGED <<prog, radio, net, rtc, files, last_hm, a, b, offset, new, phys, crashes,
                   lossAt, hist>>

\* advance_one lines 214-224: the record, else (bare except) the baseline
\* with the pair False, True, else "No baseline to advance."
AdvRead ==
    /\ pc = "aread"
    /\ IF ThreeFields(lastpulse)
       THEN /\ last_hm' = lastpulse.data[1]
            /\ a' = lastpulse.data[2]
            /\ b' = lastpulse.data[3]
            /\ pc' = "drive"
            /\ UNCHANGED <<left, origin, driven, lost>>
       ELSE IF ~missing(firstrun)
            THEN /\ last_hm' = firstrun.data
                 /\ a' = bootstrap_a
                 /\ b' = bootstrap_b
                 /\ pc' = "drive"
                 /\ origin' = firstrun.data
                 /\ driven' = 0
                 /\ lost' = 0
                 /\ UNCHANGED left
            ELSE /\ left' = left - 1
                 /\ pc' = IF left' = 0 THEN "ret" ELSE "aread"
                 /\ UNCHANGED <<last_hm, a, b, origin, driven, lost>>
    /\ UNCHANGED <<prog, radio, net, rtc, files, op, offset, new, phys, crashes, lossAt, ep>>

\* ---------------------------------------------------------- main.py
\* main.py lines 246-261: detectNewMinute, computeTime; a decoded time sets
\* the RTC and pulses the minute motor once, 'failed' does neither.
DcfCycle(decoded, t) ==
    /\ prog = "dcf"
    /\ pc \in {"boot", "idle"}
    /\ IF decoded
       THEN /\ rtc' = t
            /\ op' = "dcf"
            /\ last_hm' = t
            /\ left' = 1
            /\ pc' = "drive"
       ELSE /\ pc' = "idle"
            /\ UNCHANGED <<rtc, op, last_hm, left>>
    /\ UNCHANGED <<prog, radio, net, files, a, b, offset, new, phys, crashes, lossAt, hist>>

\* ------------------------------------------------- main.py in detail
\* main.py:248 and 17-22: the main loop calls detectNewMinute.
DetectStart ==
    /\ prog = "dcf"
    /\ pc \in {"boot", "idle"}
    /\ pc' = "detect"
    /\ countZeros' = 0
    /\ nsamples' = 0
    /\ lastHigh' = 0
    /\ UNCHANGED <<prog, rtc, files, op, last_hm, a, b, offset, left, new, phys,
                   crashes, lossAt, hist, sent, timeInfo, cell, radiotime,
                   season, net>>

\* detectNewMinute lines 24-37: one sample v of the pin; the function
\* returns once countZeros >= breakat.
Sample(v) ==
    /\ pc = "detect"
    /\ nsamples < MaxSamples
    /\ nsamples' = nsamples + 1
    /\ countZeros' = count_lows(countZeros, v)
    /\ lastHigh' = IF v = 0 THEN lastHigh ELSE nsamples'
    /\ pc' = IF countZeros' >= breakat THEN "detected" ELSE "detect"
    /\ UNCHANGED <<prog, rtc, files, op, last_hm, a, b, offset, left, new, phys,
                   crashes, lossAt, hist, sent, timeInfo, cell, radiotime,
                   season, net>>

\* main.py:249 and 67-76: computeTime starts with an empty timeInfo while
\* the transmitter sends frame f.
ComputeStart(f) ==
    /\ pc = "detected"
    /\ pc' = "listen"
    /\ sent' = f
    /\ timeInfo' = << >>
    /\ cell' = NoWindow
    /\ radiotime' = failed
    /\ season' = ""
    /\ countZeros' = 0
    /\ nsamples' = 0
    /\ lastHigh' = 0
    /\ UNCHANGED <<prog, rtc, files, op, last_hm, a, b, offset, left, new, phys,
                   crashes, lossAt, hist, net>>

\* computeTime lines 80-127: one turn of the sampling loop with window c.
\* The receiver supplies noise at any time and otherwise the pulse of the
\* bit that is on the air.  With bit 58 in, the frame is checked and
\* decoded (lines 96-125) and computeTime returns.
Listen(c) ==
    /\ pc = "listen"
    /\ timeInfo' = classify(timeInfo, c)
    /\ timeInfo' \in {timeInfo, Append(timeInfo, bit(sent, Len(timeInfo)))}
    /\ cell' = c
    /\ IF Len(timeInfo') = 59
       THEN /\ radiotime' = computeTime(timeInfo')
            /\ season' = IF markers_bad(timeInfo') \/ parity_bad(timeInfo')
                          THEN "" ELSE season_of(timeInfo')
            /\ pc' = "decoded"
       ELSE /\ pc' = "listen"
            /\ UNCHANGED <<radiotime, season>>
    /\ UNCHANGED <<prog, rtc, files, op, last_hm, a, b, offset, left, new, phys,
                   crashes, lossAt, hist, countZeros, nsamples, lastHigh, sent, net>>

\* main.py:250-261 with ds3231.set_time (149-160): a decoded time sets the
\* RTC and pulseminute is called; 'failed' does neither.  set_time looks
\* the weekday's name up in ds3231.w; list.index raises ValueError for a
\* name that is not there, nothing catches it and the script ends.
AfterDecode ==
    /\ pc = "decoded"
    /\ IF radiotime.ok
       THEN IF w_index(radiotime.wd) = 0
            THEN /\ pc' = "halt"
                 /\ UNCHANGED <<rtc, op, last_hm, left>>
            ELSE /\ rtc' = radiotime.hh \o radiotime.mm
                 /\ op' = "dcf"
                 /\ last_hm' = radiotime
                 /\ left' = 1
                 /\ pc' = "drive"
       ELSE /\ pc' = "idle"
            /\ UNCHANGED <<rtc, op, last_hm, left>>
    /\ sent' = << >>
    /\ timeInfo' = << >>
    /\ cell' = NoWindow
    /\ UNCHANGED <<prog, files, a, b, offset, new, phys, crashes, lossAt, hist,
                   countZeros, nsamples, lastHigh, radiotime, season, net>>

\* ------------------------------------------------ webtime.py: Wi-Fi
\* main() lines 257-259: the first set_time call, which succeeds or not and
\* takes d seconds; last_wifi_attempt = time.time() after it.
Startup(ok, d) ==
    /\ prog = "webtime"
    /\ pc = "boot"
    /\ clock = 0
    /\ prev_attempt' = clock
    /\ wifi_failed' = ~ok
    /\ clock' = clock + d
    /\ last_wifi_attempt' = clock'
    /\ pc' = "idle"
    /\ UNCHANGED <<prog, rtc, files, op, last_hm, a, b, offset, left, new, phys,
                   crashes, lossAt, hist, radio>>

\* clock_loop lines 238-248, an iteration in which no retry is due; it takes
\* d seconds (the pulse, the sleep).
LoopPass(d) ==
    /\ prog = "webtime"
    /\ pc = "idle"
    /\ ~retry_due(wifi_failed, clock, last_wifi_attempt)
    /\ clock + d <= MaxClock
    /\ clock' = clock + d
    /\ UNCHANGED <<prog, rtc, files, pc, op, last_hm, a, b, offset, left, new,
                   phys, crashes, lossAt, hist, radio, wifi_failed,
                   last_wifi_attempt, prev_attempt>>

\* clock_loop lines 244-248, an iteration in which the retry is due:
\* set_time is called and takes d seconds; wifi_failed is cleared when it
\* succeeds.  last_wifi_attempt is assigned nowhere but in main().
Retry(ok, d) ==
    /\ prog = "webtime"
    /\ pc = "idle"
    /\ retry_due(wifi_failed, clock, last_wifi_attempt)
    /\ clock + d <= MaxClock
    /\ prev_attempt' = clock
    /\ wifi_failed' = IF ok THEN FALSE ELSE wifi_failed
    /\ clock' = clock + d
    /\ UNCHANGED <<prog, rtc, files, pc, op, last_hm, a, b, offset, left, new,
                   phys, crashes, lossAt, hist, radio, last_wifi_attempt>>

\* -------------------------------------------------------- environment
\* The RTC moves on, or set_time (lines 47-72) sets it from the network.
\* Each handler and each loop iteration reads it once, at its start.
RtcChange ==
    /\ pc \in {"boot", "idle"}
    /\ rtc' \in Times \ {rtc}
    /\ ep' = EpFrom(lastpulse)
    /\ UNCHANGED <<prog, radio, net, files, pc, op, last_hm, a, b, offset, left, new, phys,
                   crashes, lossAt, origin, driven, lost>>

\* Power is lost and comes back: the files and the motor stay as they are,
\* the script starts again (webtime.py main(), main.py:241-245).
PowerLoss ==
    /\ crashes < MaxCrashes
    /\ crashes' = crashes + 1
    /\ lossAt' = pc
    /\ pc' = "boot"
    /\ op' = "none"
    /\ last_hm' = << >>
    /\ a' = BootA(prog)
    /\ b' = BootB(prog)
    /\ offset' = NoOffset
    /\ left' = 0
    /\ new' = << >>
    /\ lost' = IF pc = "open" /\ prog = "webtime" THEN lost + 1 ELSE lost
    /\ ep' = EpFrom(lastpulse)
    /\ UNCHANGED <<prog, radio, net, rtc, files, phys, origin, driven>>

\* ------------------------------------------------------ specification
Program ==
    \/ LoopCalc
    \/ BootOpen
    \/ BootWrite
    \/ Decide
    \/ Drive
    \/ Open
    \/ Write
    \/ Return

Next ==
    \/ Program
    \/ \E t \in Baselines : SyncRequest(t)
    \/ SyncWrite
    \/ SyncRemove
    \/ SyncCalc
    \/ \E n \in {1, 5} : AdvRequest(n)
    \/ AdvRead
    \/ \E decoded \in BOOLEAN, t \in Times : DcfCycle(decoded, t)
    \/ RtcChange
    \/ PowerLoss

Spec == Init /\ [][Next]_vars

\* The target held fixed: clock_loop alone, with power losses.  The
\* interpreter runs the next statement and the scheduler the next iteration
\* unless power is lost, hence weak fairness of the program's steps.
MaxCatchUp == 3

\* Pulses from one time forward to another on the 12-hour cycle.
FwdDist(from, to) == (pulsessince12(to) - pulsessince12(from)) % HalfDay

InitFair ==
    /\ Init
    /\ prog = "webtime"
    /\ firstrun.exists
    /\ FwdDist(firstrun.data, rtc) <= MaxCatchUp

NextFair ==
    \/ Program
    \/ PowerLoss

FairSpec == InitFair /\ [][NextFair]_vars /\ WF_vars(Program)

\* main.py alone, with its decoder in detail.
InitRadio ==
    /\ Init
    /\ prog = "dcf"
    /\ rtc = format_hm(0, 5)
    /\ firstrun = NoFile

NextRadio ==
    \/ DetectStart
    \/ \E v \in {0, 1} : Sample(v)
    \/ \E f \in Frames : ComputeStart(f)
    \/ \E c \in Windows : Listen(c)
    \/ AfterDecode
    \/ Drive
    \/ Open
    \/ Write
    \/ Return

RadioSpec == InitRadio /\ [][NextRadio]_vars

\* webtime.py's Wi-Fi retry against time.time().
InitWifi ==
    /\ Init
    /\ prog = "webtime"
    /\ rtc = format_hm(0, 5)
    /\ firstrun = NoFile

NextWifi ==
    \/ \E ok \in BOOLEAN, d \in {1, 20} : Startup(ok, d)
    \/ \E d \in {1, 300} : LoopPass(d)
    \/ \E ok \in BOOLEAN, d \in {1, 20} : Retry(ok, d)

WifiSpec == InitWifi /\ [][NextWifi]_vars

\* ------------------------------------------------------------- claims
Target == pulsessince12(rtc)
RecordIndex == pulsessince12(lastpulse.data[1])
RecordAdvance == (RecordIndex - pulsessince12(origin)) % HalfDay

\* C1: the record in lastpulseat.txt is never ahead of the motor: the
\* minutes the record has advanced from the baseline it was bootstrapped
\* from never exceed the pulses driven since that bootstrap, in every state
\* of clock_loop, /sync, /advance1 and /advance5, power losses included.
C1_RecordNeverAhead ==
    (prog = "webtime" /\ ThreeFields(lastpulse) /\ Len(origin) = 4)
        => RecordAdvance <= driven

\* C1 witness: power was lost between a pulse and its write; after the
\* restart the record is one pulse behind the motor.
C1_Witness ==
    /\ prog = "webtime"
    /\ pc = "boot"
    /\ lossAt = "open"
    /\ ThreeFields(lastpulse)
    /\ RecordAdvance = 1
    /\ driven = 2

\* C2: power lost after a pulse of a catch-up was driven and before its
\* record is written leaves, on restart, the record of the pulse before;
\* with no further power loss clock_loop then drives that pulse again and
\* the remaining ones, and the record ends at the target index.
C2_LostMidPulse == pc = "boot" /\ lossAt = "open"

C2_RecordOnePulseBack ==
    /\ ThreeFields(lastpulse)
    /\ RecordAdvance = driven - lost
    /\ lost >= 1

C2_Recovered ==
    /\ pc = "idle"
    /\ ThreeFields(lastpulse)
    /\ RecordIndex = Target
    /\ driven = FwdDist(origin, rtc) + lost

C3_CatchUpExact ==
    (prog = "webtime" /\ ep.ok /\ Target >= ep.L /\ op \in {"none", "loop", "sync"})
        => /\ ep.n <= Target - ep.L
           /\ pc \notin {"open", "write"}
                => ThreeFields(lastpulse) /\ RecordIndex = ep.L + ep.n
           /\ pc = "open"
                => ThreeFields(lastpulse) /\ RecordIndex = ep.L + ep.n - 1
           /\ (pc = "ret" /\ op = "sync")
                => RecordIndex = Target /\ ep.n = Target - ep.L
           /\ (pc = "ret" /\ op = "loop" /\ ~offset.none /\ offset.v = 0)
                => RecordIndex = Target /\ ep.n = Target - ep.L

\* C3 witness: L = 5, T = 8, the loop has found offset 0 after 3 pulses.
C3_Witness ==
    /\ pc = "ret"
    /\ op = "loop"
    /\ ~offset.none
    /\ offset.v = 0
    /\ ep.ok
    /\ ep.L = 5
    /\ Target = 8
    /\ ep.n = 3
    /\ RecordIndex = 8

\* C4: the offset calcoffset returns is normalized into one half-day cycle:
\* 0 <= offset < 720 and offset = (T - L) mod 720.
C4_OffsetNormalized ==
    (pc = "decide" /\ ~offset.none)
        => /\ offset.v >= 0
           /\ offset.v < HalfDay
           /\ offset.v = FwdDist(last_hm, rtc)

\* C5 as stated: whenever a clock_loop iteration finds offset 0, no phase
\* line is driven and lastpulseat.txt is left unchanged.
C5_ZeroOffsetTouchesNothing ==
    [][(pc' = "decide" /\ op' = "loop" /\ ~offset'.none /\ offset'.v = 0)
          => (lastpulse' = lastpulse /\ phys' = phys)]_vars

\* C5 amended: an iteration that reads a record already at the target finds
\* offset 0 and changes neither the record nor the motor, and after offset 0
\* the iteration ends without a pulse; only the first-run bootstrap writes
\* a record while the offset is 0.
C5_Idempotent ==
    [][/\ (prog = "webtime" /\ pc \in {"boot", "idle"} /\ op' = "loop"
             /\ ThreeFields(lastpulse) /\ RecordIndex = Target)
          => (pc' = "decide" /\ ~offset'.none /\ offset'.v = 0
                /\ lastpulse' = lastpulse /\ phys' = phys /\ driven' = driven)
       /\ (pc = "decide" /\ op = "loop" /\ ~offset.none /\ offset.v = 0)
          => (pc' \in {"ret", "boot"}
                /\ lastpulse' = lastpulse /\ phys' = phys /\ driven' = driven)
      ]_vars

\* C5 witness: reconcile has applied pulses in this episode and is called
\* again with the same target: offset 0.
C5_Witness ==
    /\ pc = "decide"
    /\ op = "loop"
    /\ ~offset.none
    /\ offset.v = 0
    /\ ep.ok
    /\ ep.n = 3

\* C6: with no record and a baseline, the initial record (baseline, phase
\* pair) is on disk before any pulse is driven, and reconcile then applies
\* target - baseline pulses (on the 12-hour cycle).
C6_BootstrapThenCatchUp ==
    prog = "webtime"
        => /\ (ep.ok /\ ep.boot /\ ep.n = 0 /\ pc \in {"decide", "drive"})
                => lastpulse = RecordOf(origin, bootstrap_a, bootstrap_b)
           /\ (pc = "drive" /\ op \in {"loop", "sync"}) => ThreeFields(lastpulse)
           /\ driven > 0 => Len(origin) = 4
           /\ (ep.ok /\ ep.boot /\ pc \in {"ret", "idle"} /\ ThreeFields(lastpulse)
                 /\ RecordIndex = Target)
                => ep.n = FwdDist(origin, rtc)

\* C6 witness: baseline 03:15, target 03:16, one pulse applied.
C6_Witness ==
    /\ prog = "webtime"
    /\ pc = "ret"
    /\ op = "loop"
    /\ ep.ok
    /\ ep.boot
    /\ origin = format_hm(3, 15)
    /\ rtc = format_hm(3, 16)
    /\ lastpulse = RecordOf(format_hm(3, 16), TRUE, FALSE)
    /\ ep.n = 1
    /\ driven = 1

\* C7: a corrupt record (here: empty, cut off by a power loss after the file
\* was opened for writing) is handled like an absent one and the clock loop
\* keeps running: the iteration that reads it goes on to the bootstrap
\* from the baseline, or reports failure when there is no baseline.
C7_CorruptRecordBootstraps ==
    [][(prog = "webtime" /\ pc \in {"boot", "idle"} /\ op' = "loop"
          /\ lastpulse.exists /\ Len(lastpulse.data) # 3)
          => pc' = (IF firstrun.exists THEN "bopen" ELSE "decide")]_vars

\* C8: with neither record nor baseline, clock_loop and /advance1 drive no
\* pulse and create no record, and calcoffset reports failure (None); only
\* /sync, which supplies a baseline, changes that.
C8_NoBaselineNoEffect ==
    [][(prog = "webtime" /\ ~lastpulse.exists /\ ~firstrun.exists
          /\ op' # "sync")
          => /\ lastpulse' = lastpulse
             /\ firstrun' = firstrun
             /\ phys' = phys
             /\ driven' = driven
             /\ pc' \in {"boot", "idle", "decide", "ret", "aread"}
             /\ pc' = "decide" => offset'.none
      ]_vars

\* C8 witness: /advance5 has answered "No baseline to advance." five times.
C8_Witness ==
    /\ pc = "ret"
    /\ op = "adv"
    /\ ~lastpulse.exists
    /\ ~firstrun.exists
    /\ phys.n = 0

\* C9: every phase pair held or persisted is complementary: the record's,
\* the pair a script holds, and the pair last driven.
C9_PhasesComplementary ==
    /\ ThreeFields(lastpulse) => lastpulse.data[2] # lastpulse.data[3]
    /\ a # b
    /\ phys.n = 1 => phys.a # phys.b

\* C9 witness: the record of a completed pulse after the bootstrap record.
C9_Witness ==
    /\ pc = "idle"
    /\ ThreeFields(lastpulse)
    /\ lastpulse.data[2] = TRUE
    /\ lastpulse.data[3] = FALSE
    /\ phys.n = 1

\* C10: every pulse drives both lines opposite to the pulse driven before.
C10_AlternatingPolarity ==
    [][(pc = "drive" /\ pc' \in {"open", "ret"} /\ phys.n = 1)
          => (phys'.a # phys.a /\ phys'.b # phys.b)]_vars


\* The time a frame was encoded from is what the time string reads back as.
RoundTrip(t, z1, z2) ==
    sent = encode(t, z1, z2)
        => radiotime.ok /\ timeInfo = sent /\ fields_of(radiotime) = t

C12_BadFrameFails ==
    (pc = "decoded"
       /\ (\/ bit(timeInfo, 0) # 0
           \/ bit(timeInfo, 20) # 1
           \/ sum_bits(timeInfo, 21, 29) % 2 = 1
           \/ sum_bits(timeInfo, 29, 36) % 2 = 1
           \/ sum_bits(timeInfo, 36, 59) % 2 = 1))
        => radiotime = failed /\ season = ""

\* C12 witness: a frame whose hour group has odd parity was rejected.
C12_Witness ==
    /\ pc = "decoded"
    /\ bit(timeInfo, 0) = 0
    /\ bit(timeInfo, 20) = 1
    /\ sum_bits(timeInfo, 21, 29) % 2 = 0
    /\ sum_bits(timeInfo, 29, 36) % 2 = 1
    /\ radiotime = failed

\* C13: for a frame that passed the marker and parity checks, bit 17 set
\* gives the summer zone whatever bit 18 is, otherwise bit 18 set gives the
\* winter zone, and with neither set computeTime returns 'failed'.
C13_SeasonResolution ==
    (pc = "decoded" /\ ~markers_bad(timeInfo) /\ ~parity_bad(timeInfo))
        => /\ bit(timeInfo, 17) = 1 => (season = "CEST" /\ radiotime.ok)
           /\ (bit(timeInfo, 17) = 0 /\ bit(timeInfo, 18) = 1)
                => (season = "CET" /\ radiotime.ok)
           /\ (bit(timeInfo, 17) = 0 /\ bit(timeInfo, 18) = 0)
                => radiotime = failed

\* C13 witness: bits 17 and 18 both set, resolved to the summer zone.
C13_Witness ==
    /\ pc = "decoded"
    /\ bit(timeInfo, 17) = 1
    /\ bit(timeInfo, 18) = 1
    /\ season = "CEST"
    /\ radiotime.ok

\* C14: every successfully decoded time has minute 0-59, hour 0-23,
\* day 1-31, weekday 1-7, month 1-12 and year 0-99.
C14_FieldsInRange ==
    (pc = "decoded" /\ radiotime.ok)
        => /\ fields_of(radiotime).minute \in 0..59
           /\ fields_of(radiotime).hour \in 0..23
           /\ fields_of(radiotime).day \in 1..31
           /\ fields_of(radiotime).weekday \in 1..7
           /\ fields_of(radiotime).month \in 1..12
           /\ fields_of(radiotime).year \in 0..99

\* A turn of computeTime's sampling loop.
ListenStep == pc = "listen" /\ pc' \in {"listen", "decoded"}

\* C15: a window that starts at a rising edge and whose measured duration
\* is below the noise threshold (40 ms, 8 samples) emits no bit: the bit
\* index and the bits assembled so far are unchanged.
C15_NoiseEmitsNoBit ==
    [][(ListenStep /\ cell'.a0 = 0 /\ cell'.a1 = 1
          /\ cell'.total * samplespeed < noisethreshms)
          => timeInfo' = timeInfo]_vars

\* C15 witness: a 35 ms pulse was measured with five bits assembled.
C15_Witness ==
    /\ pc = "listen"
    /\ cell = Edge(NoiseSamples - 1, NoiseSamples - 1)
    /\ Len(timeInfo) = 5

C17_LoopGoesOn ==
    [][pc = "decoded"
          => IF radiotime.ok
             THEN pc' = "drive" /\ rtc' = radiotime.hh \o radiotime.mm
             ELSE pc' = "idle" /\ rtc' = rtc /\ phys' = phys
                    /\ lastpulse' = lastpulse]_vars

\* C18: clock_loop and the handlers never interleave inside a read-decide-
\* pulse-persist sequence: from the step that starts a loop iteration or a
\* handler until it returns, every step is that task's own (or the power is
\* lost), so the record is read and written by no other task meanwhile.
C18_NoInterleaving ==
    [][(op # "none" /\ pc \notin {"boot", "idle", "ret", "halt"})
          => (op' = op \/ pc' = "boot")]_vars

\* C18 witness: a request was served between two loop iterations, and its
\* pulse is driven but not yet on record.
C18_Witness ==
    /\ pc = "open"
    /\ op = "adv"
    /\ crashes = 0
    /\ driven = 2

\* C19: detectNewMinute returns only with breakat = 21 consecutive low
\* samples: the count is the number of samples since the last high one.
C19_ReturnsAfterSilence ==
    /\ breakat = 21
    /\ pc = "detect" => (countZeros < breakat /\ countZeros = nsamples - lastHigh)
    /\ pc = "detected" => (countZeros >= breakat /\ nsamples - lastHigh >= breakat)

\* C19 witness: a high sample at the third reading, then 21 low ones.
C19_Witness ==
    /\ pc = "detected"
    /\ lastHigh = 3
    /\ nsamples = 24

\* C20: two consecutive set_time calls are at least wifi_retry_interval
\* (600 s) apart, and no call is made once one has succeeded.
C20_RetrySpacing ==
    [][prev_attempt' # prev_attempt
          => (wifi_failed /\ prev_attempt' - prev_attempt >= wifi_retry_interval)]_vars

\* C21: each pulsetoclock call writes a record whose pulse index is the
\* index of the time passed in plus one, modulo 720 (11:59 is followed by
\* 00:00), and the index of every record on disk lies in 0..719.
C21_OneMinutePerPulse ==
    [][(prog = "webtime" /\ ThreeFields(lastpulse'))
          => /\ pulsessince12(lastpulse'.data[1]) \in 0..(HalfDay - 1)
             /\ pc = "write"
                => /\ lastpulse'.data[1] = last_hm'
                   /\ pulsessince12(last_hm') = (pulsessince12(last_hm) + 1) % HalfDay
      ]_vars

\* C21 witness: the pulse from 11:59 has been recorded as 00:00.
C21_Witness ==
    /\ prog = "webtime"
    /\ pc = "ret"
    /\ origin = format_hm(11, 59)
    /\ driven = 1
    /\ ThreeFields(lastpulse)
    /\ lastpulse.data[1] = format_hm(0, 0)

=============================================================================
